---------------------------- MODULE Spec2Model ----------------------------
(***************************************************************************)
(* Travel Itinerary Planner (src/app.py): the PDF export (render_pdf and   *)
(* its nested draw_block / write), the weather text (weather_md) and the   *)
(* submit branch of the Streamlit page.                                    *)
(*                                                                         *)
(* Text is a sequence of one-character strings.  Lengths are kept in       *)
(* units of 1/127 pt, in which reportlab's cm (72/2.54 pt) is exactly 3600 *)
(* and every cursor value of render_pdf is an integer.  The cursor never   *)
(* comes closer than half a point to the bottom margin (top - 2cm is 92520 *)
(* units and every step of the cursor a multiple of 254), so the float     *)
(* comparison of line 167 is decided as the integers decide it.            *)
(***************************************************************************)
EXTENDS Integers, Sequences, FiniteSets, TLC

VARIABLES
    \* ---- one itinerary line on its way through render_pdf
    ipc,            \* "norm" | "write" | "done"
    ln,             \* the line as itinerary_md.splitlines() yields it
    norm,           \* the line as appended to norm (line 194)
    handed,         \* the line as handed to simpleSplit (line 165)
    \* ---- the Weather block's body
    wpc,            \* "strip" | "done"
    weather_text,   \* render_pdf's argument
    wbody,          \* the body draw_block receives (line 186)
    \* ---- one render_pdf call
    pc,             \* position in render_pdf
    args,           \* wrapped-line count of each block's body, and the clock
    blk,            \* index of the block being drawn (1..3)
    bullet,         \* draw_block's bullet parameter
    left_segs,      \* wrapped lines of the current body not yet drawn
    y,              \* the cursor (y in render_pdf and draw_block, y0 in write)
    canvas,         \* the canvas: the operations done on c, in order
    prev,           \* an earlier finished call: its arguments and its canvas
    \* ---- the page script (one run per browser event)
    upc,            \* position in the script run
    city,           \* the City field
    go,             \* the Generate Plan button
    calls,          \* the calls of this run, in order
    itin_ok,        \* whether make_itinerary returned
    resp,           \* what the geocoding and forecast services answer
    raised,         \* the function whose exception ended the run, or "none"
    wtext,          \* weather_md's return value
    pdf_weather,    \* the body render_pdf gives the Weather block
    download        \* whether the download button is offered

itinVars    == <<ipc, ln, norm, handed>>
weatherVars == <<wpc, weather_text, wbody>>
renderVars  == <<pc, args, blk, bullet, left_segs, y, canvas, prev>>
uiVars      == <<upc, city, go, calls, itin_ok, resp, raised, wtext,
                 pdf_weather, download>>
vars        == <<itinVars, weatherVars, renderVars, uiVars>>

(***************************************************************************)
(* Bounds of the model.                                                    *)
(***************************************************************************)
MaxHeadLen   == 7   \* longest itinerary line over the heading alphabet
MaxBulletLen == 4   \* longest itinerary line over the bullet alphabet
MaxWeatherLen == 8  \* longest weather text
SegStep      == 7   \* body sizes come in multiples of SegStep wrapped lines
MaxSegK      == 8   \* ... up to MaxSegK * SegStep wrapped lines for a body
MaxClock     == 1   \* clock readings 0..MaxClock
MaxCityLen   == 2   \* longest City field
MaxErrLen    == 4   \* longest exception message
MaxDays      == 2   \* longest array of a forecast answer

(***************************************************************************)
(* Characters.  Glyph stands for the one character U+2022 (the bullet).    *)
(***************************************************************************)
Glyph == "bullet"
Tab   == "\t"
HeadingAlphabet == {"#", " ", "x"}
BulletAlphabet  == {"*", "-", Glyph, " ", Tab, "x"}
Whitespace      == {" ", Tab}           \* what str.strip() removes
BulletMarkers   == {"*", "-", Glyph}    \* the tuple of line 163
LStripSet       == {"*", "-", Glyph, " "}   \* the argument of lstrip, line 164

SeqsUpTo(S, n) == UNION {[1..k -> S] : k \in 0..n}

(***************************************************************************)
(* Python's str operations.                                                *)
(***************************************************************************)
StartsWith(s, p) == Len(s) >= Len(p) /\ SubSeq(s, 1, Len(p)) = p
Drop(s, n)       == SubSeq(s, n + 1, Len(s))

RECURSIVE LStripChars(_, _)
LStripChars(s, cs) ==
    IF s # <<>> /\ Head(s) \in cs THEN LStripChars(Tail(s), cs) ELSE s

RECURSIVE RStripChars(_, _)
RStripChars(s, cs) ==
    IF s # <<>> /\ s[Len(s)] \in cs
    THEN RStripChars(SubSeq(s, 1, Len(s) - 1), cs) ELSE s

Strip(s) == RStripChars(LStripChars(s, Whitespace), Whitespace)

\* s.replace(old, "") : leftmost occurrences, not overlapping, one pass
RECURSIVE Remove(_, _)
Remove(s, old) ==
    IF s = <<>> THEN <<>>
    ELSE IF StartsWith(s, old) THEN Remove(Drop(s, Len(old)), old)
    ELSE <<Head(s)>> \o Remove(Tail(s), old)

H3 == <<"#", "#", "#", " ">>
H2 == <<"#", "#", " ">>
H1 == <<"#", " ">>

(***************************************************************************)
(* render_pdf, lines 189-194: the four tests, one after the other.         *)
(***************************************************************************)
NormalizeHeadingDropsHash(l) ==
    LET a == IF StartsWith(l, H3) THEN Drop(l, 4) ELSE l
        b == IF StartsWith(a, H2) THEN Drop(a, 3) ELSE a
        c == IF StartsWith(b, H1) THEN Drop(b, 2) ELSE b
    IN  IF c # <<>> /\ Head(c) = "#" THEN Drop(c, 1) ELSE c

NormalizeHeading(l) ==
    LET a == IF StartsWith(l, H3) THEN Drop(l, 4) ELSE l
        b == IF StartsWith(a, H2) THEN Drop(a, 3) ELSE a
        c == IF StartsWith(b, H1) THEN Drop(b, 2) ELSE b
        d == IF StartsWith(c, H1) THEN Drop(c, 1) ELSE c
    IN  d

(***************************************************************************)
(* write, lines 163-164: the bullet rewrite of one body line.              *)
(***************************************************************************)
BulletLine(l, b) ==
    IF b /\ Strip(l) # <<>> /\ Head(Strip(l)) \in BulletMarkers
    THEN <<Glyph, " ">> \o Strip(LStripChars(l, LStripSet))
    ELSE l

(***************************************************************************)
(* render_pdf, line 186: the Weather block's body.                         *)
(***************************************************************************)
WeatherBodyLeadingOnly(t) ==
    IF StartsWith(t, H3) THEN Drop(t, 4)
    ELSE IF StartsWith(t, H2) THEN Drop(t, 3)
    ELSE IF StartsWith(t, H1) THEN Drop(t, 2)
    ELSE t

WeatherBody(t) == Remove(t, H3)

(***************************************************************************)
(* One itinerary line through render_pdf: normalised (lines 189-194),      *)
(* joined into the Itinerary body, split again and rewritten by write in   *)
(* bullet mode (lines 162-165).                                            *)
(***************************************************************************)
ItinLines ==
    SeqsUpTo(HeadingAlphabet, MaxHeadLen) \cup SeqsUpTo(BulletAlphabet, MaxBulletLen)

ItinOff    == ipc = "off" /\ ln = <<>> /\ norm = <<>> /\ handed = <<>>
WeatherOff == wpc = "off" /\ weather_text = <<>> /\ wbody = <<>>

InitItin ==
    /\ ipc = "norm"
    /\ ln \in ItinLines
    /\ norm = <<>>
    /\ handed = <<>>

NormalizeLine ==
    /\ ipc = "norm"
    /\ norm' = NormalizeHeading(ln)
    /\ ipc' = "write"
    /\ UNCHANGED <<ln, handed>>
    /\ UNCHANGED <<weatherVars, renderVars, uiVars>>

WriteLine ==
    /\ ipc = "write"
    /\ handed' = BulletLine(norm, TRUE)
    /\ ipc' = "done"
    /\ UNCHANGED <<ln, norm>>
    /\ UNCHANGED <<weatherVars, renderVars, uiVars>>

(***************************************************************************)
(* The Weather block's body (line 186), written in plain mode.             *)
(***************************************************************************)
WeatherTexts == SeqsUpTo(HeadingAlphabet, MaxWeatherLen)

InitWeather ==
    /\ wpc = "strip"
    /\ weather_text \in WeatherTexts
    /\ wbody = <<>>

WeatherBlock ==
    /\ wpc = "strip"
    /\ wbody' = BulletLine(WeatherBody(weather_text), FALSE)
    /\ wpc' = "done"
    /\ UNCHANGED weather_text
    /\ UNCHANGED <<itinVars, renderVars, uiVars>>

(***************************************************************************)
(* render_pdf: the geometry (lines 151-154), in units of 1/127 pt.         *)
(***************************************************************************)
Pt           == 127                 \* one point
Cm           == 3600                \* reportlab.lib.units.cm = 72/2.54 pt
A4HeightCm10 == 297                 \* reportlab.lib.pagesizes.A4: 29.7 cm high
Height == (A4HeightCm10 * Cm) \div 10
Top    == Height - 2 * Cm           \* line 153
Bottom == 2 * Cm                    \* the 2*cm of line 167
LineH  == 14 * Pt                   \* line_h, line 154
TitleH == 12 * Pt                   \* y -= 12, lines 157 and 182
DocTitleH == 18 * Pt                \* y -= 18, line 179
BlockGap  == 8 * Pt                 \* return y - 8, line 172

BlockNameSwapped(b) == <<"Interests", "Itinerary", "Weather">>[b]
\* the three draw_block calls of lines 185, 186 and 195, in order
BlockName(b) == <<"Interests", "Weather", "Itinerary">>[b]
\* bullet is passed for the Itinerary block alone (line 195)
BlockBullet(b) == b = 3

SegCounts == {k * SegStep : k \in 0..MaxSegK}
Clock     == 0..MaxClock

\* The arguments as the layout sees them: the number of lines simpleSplit
\* makes of each body (line 165, over all lines of txt.split("\n")), whether
\* interests_text is the empty string, and the reading of datetime.now().
ArgSets(counts, clocks) ==
    { a \in [segs : [1..3 -> counts], no_interests : BOOLEAN, now : clocks] :
        a.no_interests => a.segs[1] = 0 }

\* interests_text or "-" (line 185): the dash wraps to one line
BodySegs(a, b) == IF b = 1 /\ a.no_interests THEN 1 ELSE a.segs[b]

Draw(what, b, n, at, mode) ==
    [op |-> "drawString", what |-> what, blk |-> b, n |-> n, y |-> at, bullet |-> mode]
ShowPage == [op |-> "showPage", what |-> "-", blk |-> 0, n |-> 0, y |-> 0, bullet |-> FALSE]

NoArgs == [segs |-> <<0, 0, 0>>, no_interests |-> FALSE, now |-> -1]
NoCall == [args |-> NoArgs, canvas |-> <<>>]

StaleCanvas == canvas
\* buf = io.BytesIO(); c = canvas.Canvas(buf, ...), lines 149-150
FreshCanvas == <<>>

RenderOff ==
    /\ pc = "off" /\ args = NoArgs /\ blk = 0 /\ bullet = FALSE /\ left_segs = 0
    /\ y = 0 /\ canvas = <<>> /\ prev = NoCall

InitRender ==
    /\ pc = "idle" /\ args = NoArgs /\ blk = 0 /\ bullet = FALSE /\ left_segs = 0
    /\ y = 0 /\ canvas = <<>> /\ prev = NoCall

\* lines 148-154 and 175-177: the call's own buffer, canvas and cursor
Enter(a) ==
    /\ args' = a
    /\ canvas' = FreshCanvas
    /\ y' = Top
    /\ blk' = 0
    /\ bullet' = FALSE
    /\ left_segs' = 0
    /\ pc' = "title"

\* a call of render_pdf
RenderPdf(counts, clocks) ==
    /\ pc = "idle"
    /\ \E a \in ArgSets(counts, clocks) : Enter(a)
    /\ UNCHANGED prev
    /\ UNCHANGED <<itinVars, weatherVars, uiVars>>

\* the next call of render_pdf, after one that returned; prev keeps the
\* call that returned or a call before it
RenderPdfAgain(counts, clocks) ==
    /\ pc = "done"
    /\ \E a \in ArgSets(counts, clocks) : Enter(a)
    /\ prev' \in {prev, [args |-> args, canvas |-> canvas]}
    /\ UNCHANGED <<itinVars, weatherVars, uiVars>>

\* line 178-179
DrawDocTitle ==
    /\ pc = "title"
    /\ canvas' = Append(canvas, Draw("doc_title", 0, 0, y, FALSE))
    /\ y' = y - DocTitleH
    /\ pc' = "stamp"
    /\ UNCHANGED <<args, blk, bullet, left_segs, prev>>
    /\ UNCHANGED <<itinVars, weatherVars, uiVars>>

\* lines 180-182
DrawTimestamp ==
    /\ pc = "stamp"
    /\ canvas' = Append(canvas, Draw("generated", 0, args.now, y, FALSE))
    /\ y' = y - TitleH
    /\ blk' = 1
    /\ pc' = "block"
    /\ UNCHANGED <<args, bullet, left_segs, prev>>
    /\ UNCHANGED <<itinVars, weatherVars, uiVars>>

\* draw_block up to the call of write, lines 156-159
DrawBlockTitle ==
    /\ pc = "block"
    /\ canvas' = Append(canvas, Draw(BlockName(blk), blk, 0, y, FALSE))
    /\ y' = y - TitleH
    /\ bullet' = BlockBullet(blk)
    /\ left_segs' = BodySegs(args, blk)
    /\ pc' = "write"
    /\ UNCHANGED <<args, blk, prev>>
    /\ UNCHANGED <<itinVars, weatherVars, uiVars>>

NeedsNewPageOffPage(y0) == y0 < 0
\* line 167
NeedsNewPage(y0) == y0 < Bottom

\* one wrapped line, lines 166-169
WriteSeg ==
    /\ pc = "write"
    /\ left_segs > 0
    /\ LET y0 == y - LineH
           k  == BodySegs(args, blk) - left_segs + 1
       IN  IF NeedsNewPage(y0)
           THEN /\ canvas' = canvas \o <<ShowPage, Draw("body", blk, k, Top, bullet)>>
                /\ y' = Top
           ELSE /\ canvas' = Append(canvas, Draw("body", blk, k, y0, bullet))
                /\ y' = y0
    /\ left_segs' = left_segs - 1
    /\ UNCHANGED <<pc, args, blk, bullet, prev>>
    /\ UNCHANGED <<itinVars, weatherVars, uiVars>>

\* lines 170-172, and the next statement of render_pdf
BlockReturn ==
    /\ pc = "write"
    /\ left_segs = 0
    /\ y' = y - BlockGap
    /\ IF blk < 3
       THEN blk' = blk + 1 /\ pc' = "block"
       ELSE blk' = blk /\ pc' = "close"
    /\ UNCHANGED <<args, bullet, left_segs, canvas, prev>>
    /\ UNCHANGED <<itinVars, weatherVars, uiVars>>

\* lines 197-199
Finish ==
    /\ pc = "close"
    /\ canvas' = Append(canvas, ShowPage)
    /\ pc' = "done"
    /\ UNCHANGED <<args, blk, bullet, left_segs, y, prev>>
    /\ UNCHANGED <<itinVars, weatherVars, uiVars>>

RenderSteps ==
    \/ DrawDocTitle
    \/ DrawTimestamp
    \/ DrawBlockTitle
    \/ WriteSeg
    \/ BlockReturn
    \/ Finish

(***************************************************************************)
(* weather_md (lines 131-143) over get_weather and geocode (lines 95-129). *)
(***************************************************************************)
FailMarker ==
    <<"warn", "vs16", " ", "W", "e", "a", "t", "h", "e", "r", " ",
      "f", "e", "t", "c", "h", " ", "f", "a", "i", "l", "e", "d">>
CityNotFound ==
    <<"C", "i", "t", "y", " ", "n", "o", "t", " ", "f", "o", "u", "n", "d">>
ErrMsgs == SeqsUpTo(HeadingAlphabet, MaxErrLen)

\* What the two services answer: geo and fc are "ok", "error" (the request
\* or raise_for_status fails) or "malformed" (a key is missing), geo also
\* "none" (no results); dates and others are the lengths of daily.time and
\* of the shortest other array; msg is the text of the exception, if any.
\* The forecast is asked only once the city is found, its arrays are read
\* only if it answers, and only a raised exception has a text.
Responses ==
    { r \in [geo : {"ok", "error", "none", "malformed"},
             fc : {"ok", "error", "malformed"},
             dates : 0..MaxDays, others : 0..MaxDays, msg : ErrMsgs] :
        /\ r.geo # "ok" => r.fc = "ok"
        /\ (r.geo # "ok" \/ r.fc # "ok") => (r.dates = 0 /\ r.others = 0)
        /\ (r.geo \in {"ok", "none"} /\ r.fc = "ok" /\ r.others >= r.dates)
              => r.msg = <<>> }

\* The exception the body of the try raises, "none" if it returns.
BodyException(r) ==
    IF r.geo = "error" THEN "RequestException"          \* lines 98-99
    ELSE IF r.geo = "none" THEN "ValueError"             \* line 102
    ELSE IF r.geo = "malformed" THEN "KeyError"          \* lines 103-104
    ELSE IF r.fc = "error" THEN "RequestException"      \* lines 118-119
    ELSE IF r.fc = "malformed" THEN "KeyError"           \* lines 123-127
    ELSE IF r.others < r.dates THEN "IndexError"         \* lines 136-139
    ELSE "none"

ExceptionText(r) == IF BodyException(r) = "ValueError" THEN CityNotFound ELSE r.msg

RECURSIVE DayLines(_)
DayLines(n) == IF n = 0 THEN <<>> ELSE DayLines(n - 1) \o <<"\n", "-", " ", "d">>

CaughtValueErrorOnly(e) == e = "ValueError"
\* except Exception, line 142
Caught(e) == e \in {"RequestException", "ValueError", "KeyError", "IndexError"}

\* weather_md: [exc: the exception that leaves it, value: what it returns]
WeatherMd(r) ==
    LET e == BodyException(r)
    IN  IF e = "none"
        THEN [exc |-> "none", value |-> H3 \o <<"W">> \o DayLines(r.dates)]
        ELSE IF Caught(e)
        THEN [exc |-> "none", value |-> FailMarker \o <<":", " ">> \o ExceptionText(r)]
        ELSE [exc |-> e, value |-> <<>>]

(***************************************************************************)
(* The page script, lines 208-264: one run per browser event.              *)
(***************************************************************************)
Cities == SeqsUpTo({" ", "a"}, MaxCityLen)
NoResp == [geo |-> "ok", fc |-> "ok", dates |-> 0, others |-> 0, msg |-> <<>>]

CityMissingIfEmpty(c) == c = <<>>
\* not city.strip(), line 219
CityMissing(c) == Strip(c) = <<>>

UiOff ==
    /\ upc = "off" /\ city = <<>> /\ go = FALSE /\ calls = <<>> /\ itin_ok = FALSE
    /\ resp = NoResp /\ raised = "none" /\ wtext = <<>> /\ pdf_weather = <<>>
    /\ download = FALSE

InitUi ==
    /\ upc = "end" /\ city = <<>> /\ go = FALSE /\ calls = <<>> /\ itin_ok = FALSE
    /\ resp = NoResp /\ raised = "none" /\ wtext = <<>> /\ pdf_weather = <<>>
    /\ download = FALSE

\* a browser event starts a run of the script (lines 208-216)
Rerun ==
    /\ upc = "end"
    /\ city' \in Cities
    /\ go' \in BOOLEAN
    /\ calls' = <<>>
    /\ itin_ok' = FALSE
    /\ resp' = NoResp
    /\ raised' = "none"
    /\ wtext' = <<>>
    /\ pdf_weather' = <<>>
    /\ download' = FALSE
    /\ upc' = "branch"
    /\ UNCHANGED <<itinVars, weatherVars, renderVars>>

\* lines 218-227 and 258-264
Branch ==
    /\ upc = "branch"
    /\ upc' = IF go /\ ~CityMissing(city) THEN "itinerary" ELSE "end"
    /\ UNCHANGED <<city, go, calls, itin_ok, resp, raised, wtext, pdf_weather, download>>
    /\ UNCHANGED <<itinVars, weatherVars, renderVars>>

\* lines 228-230: make_itinerary returns, or its exception ends the run
MakeItinerary ==
    /\ upc = "itinerary"
    /\ calls' = Append(calls, "make_itinerary")
    /\ \E ok \in BOOLEAN :
         /\ itin_ok' = ok
         /\ raised' = IF ok THEN "none" ELSE "make_itinerary"
         /\ upc' = IF ok THEN "weather" ELSE "end"
    /\ UNCHANGED <<city, go, resp, wtext, pdf_weather, download>>
    /\ UNCHANGED <<itinVars, weatherVars, renderVars>>

\* lines 231-232
CallWeatherMd ==
    /\ upc = "weather"
    /\ calls' = Append(calls, "weather_md")
    /\ \E r \in Responses :
         /\ resp' = r
         /\ wtext' = WeatherMd(r).value
         /\ raised' = IF WeatherMd(r).exc = "none" THEN "none" ELSE "weather_md"
         /\ upc' = IF WeatherMd(r).exc = "none" THEN "pdf" ELSE "end"
    /\ UNCHANGED <<city, go, itin_ok, pdf_weather, download>>
    /\ UNCHANGED <<itinVars, weatherVars, renderVars>>

\* line 249 (lines 234-246 only display); render_pdf passes
\* weather_text.replace("### ", "") to the Weather block (line 186)
CallRenderPdf ==
    /\ upc = "pdf"
    /\ calls' = Append(calls, "render_pdf")
    /\ pdf_weather' = BulletLine(WeatherBody(wtext), FALSE)
    /\ upc' = "offer"
    /\ UNCHANGED <<city, go, itin_ok, resp, raised, wtext, download>>
    /\ UNCHANGED <<itinVars, weatherVars, renderVars>>

\* lines 250-257
OfferDownload ==
    /\ upc = "offer"
    /\ download' = TRUE
    /\ upc' = "end"
    /\ UNCHANGED <<city, go, calls, itin_ok, resp, raised, wtext, pdf_weather>>
    /\ UNCHANGED <<itinVars, weatherVars, renderVars>>

(***************************************************************************)
(* The specifications.                                                     *)
(***************************************************************************)
\* every itinerary line, normalised and written in bullet mode
NextItin == NormalizeLine \/ WriteLine
StartItin == InitItin /\ WeatherOff /\ RenderOff /\ UiOff
SpecItin == StartItin /\ [][NextItin]_vars

\* every weather text, made into the Weather block's body
NextWeather == WeatherBlock
StartWeather == ItinOff /\ InitWeather /\ RenderOff /\ UiOff
SpecWeather == StartWeather /\ [][NextWeather]_vars

\* one call of render_pdf, for every size of the three bodies
NextRender == RenderPdf(SegCounts, {0}) \/ RenderSteps
StartRender == ItinOff /\ WeatherOff /\ InitRender /\ UiOff
SpecRender == StartRender /\ [][NextRender]_vars

\* calls of render_pdf one after the other, short and long bodies
EdgeCounts == {0, SegStep * MaxSegK}
NextCalls ==
    \/ RenderPdf(EdgeCounts, Clock)
    \/ RenderPdfAgain(EdgeCounts, Clock)
    \/ RenderSteps
StartCalls == ItinOff /\ WeatherOff /\ InitRender /\ UiOff
SpecCalls == StartCalls /\ [][NextCalls]_vars

\* the page: runs of the script, one per event
NextUi ==
    \/ Rerun
    \/ Branch
    \/ MakeItinerary
    \/ CallWeatherMd
    \/ CallRenderPdf
    \/ OfferDownload
StartUi == ItinOff /\ WeatherOff /\ RenderOff /\ InitUi
SpecUi == StartUi /\ [][NextUi]_vars

Spec == SpecRender

(***************************************************************************)
(* Properties.                                                             *)
(***************************************************************************)
Has(s, x)      == \E i \in DOMAIN s : s[i] = x
Contains(s, p) == \E i \in 1..(Len(s) - Len(p) + 1) : SubSeq(s, i, i + Len(p) - 1) = p
HasMarker(s)   == StartsWith(s, H3) \/ StartsWith(s, H2) \/ StartsWith(s, H1)
IsPrefix(s, t) == Len(s) <= Len(t) /\ s = SubSeq(t, 1, Len(s))

\* the longest of "### ", "## ", "# " that starts the line, removed once
StripLongestOnce(l) ==
    IF StartsWith(l, H3) THEN Drop(l, 4)
    ELSE IF StartsWith(l, H2) THEN Drop(l, 3)
    ELSE IF StartsWith(l, H1) THEN Drop(l, 2)
    ELSE l

\* the draw before operation i of the canvas (a showPage may lie between)
PrevDraw(i) == IF canvas[i - 1].op = "showPage" THEN i - 2 ELSE i - 1
\* the cursor once operation e is drawn and the cursor moved past it
CursorAfter(e) ==
    e.y - (IF e.what = "doc_title" THEN DocTitleH
           ELSE IF e.what = "body" THEN 0
           ELSE TitleH)
BodyOps  == {i \in DOMAIN canvas : canvas[i].what = "body"}
TitleOps == {i \in DOMAIN canvas : canvas[i].what \in {"Interests", "Weather", "Itinerary"}}
DrawOps  == {i \in DOMAIN canvas : canvas[i].op = "drawString"}

\* C1: every body line is drawn one line height below the cursor, or, if and
\* only if that is below the bottom margin, at the top margin after exactly
\* one page break; so it is drawn within [bottom margin, top margin].
C1_BodyLinePagination ==
    \A i \in BodyOps :
        LET brk == canvas[i - 1].op = "showPage"
            dec == CursorAfter(canvas[PrevDraw(i)]) - LineH
        IN  /\ brk <=> dec < Bottom
            /\ brk => canvas[i - 2].op = "drawString"
            /\ canvas[i].y = IF brk THEN Top ELSE dec
            /\ Bottom <= canvas[i].y /\ canvas[i].y <= Top

\* a body line was drawn at the top margin after a page break
C1_Witness ==
    \E i \in BodyOps : canvas[i - 1].op = "showPage" /\ canvas[i].y = Top

\* C2: every text draw of render_pdf (document title, timestamp, block
\* titles, body lines) is at a cursor within [bottom margin, top margin].
C2_AllDrawsWithinMargins ==
    \A i \in DrawOps : Bottom <= canvas[i].y /\ canvas[i].y <= Top

\* C3 as stated: normalising a normalised itinerary line changes nothing.
C3_Idempotent ==
    ipc # "norm" => NormalizeHeading(norm) = norm

\* C3 as amended: normalising a normalised line changes nothing exactly when
\* the normalised line starts with none of "### ", "## ", "# ", which is so
\* whenever nothing but ordinary text follows the line's first marker.
C3_IdempotentUnlessStacked ==
    ipc # "norm" =>
        /\ (NormalizeHeading(norm) = norm) <=> ~HasMarker(norm)
        /\ ~HasMarker(StripLongestOnce(ln)) => NormalizeHeading(norm) = norm

\* a heading line was normalised to its text
C3_Witness ==
    /\ ipc # "norm"
    /\ StartsWith(ln, H2)
    /\ norm = Drop(ln, 3)
    /\ norm # <<>>
    /\ ~HasMarker(norm)

\* C4: in bullet mode a line whose first non-whitespace character is a bullet
\* marker is handed to the wrapper as the glyph, a space, and text that
\* starts with neither a marker nor whitespace; any other line is unchanged.
C4_BulletNormalized ==
    ipc = "done" =>
        IF Strip(norm) # <<>> /\ Head(Strip(norm)) \in BulletMarkers
        THEN /\ StartsWith(handed, <<Glyph, " ">>)
             /\ LET rest == Drop(handed, 2)
                IN  rest = <<>> \/ Head(rest) \notin (BulletMarkers \cup Whitespace)
        ELSE handed = norm

\* C5: a failing geocoding or forecast lookup leaves weather_md without an
\* exception and with a text that starts with the warning marker; the run
\* goes on to render_pdf, whose Weather body is that text unaltered when it
\* holds no "### ".
C5_WeatherFailureTolerated ==
    /\ raised # "weather_md"
    /\ (Has(calls, "weather_md") /\ BodyException(resp) # "none")
         => /\ StartsWith(wtext, FailMarker)
            /\ upc = "end" => Has(calls, "render_pdf")
            /\ (Has(calls, "render_pdf") /\ ~Contains(wtext, H3)) => pdf_weather = wtext

\* a run whose forecast arrays were too short offered its document
C5_Witness ==
    /\ upc = "end"
    /\ BodyException(resp) = "IndexError"
    /\ download
    /\ pdf_weather = wtext
    /\ Len(wtext) > Len(FailMarker)

\* C6: with an empty (trimmed) city nothing is called and nothing offered;
\* otherwise make_itinerary, weather_md and render_pdf are called once each,
\* in that order, the last two only after make_itinerary returned; if it
\* raised, neither is called and nothing is offered.
C6_CallOrder ==
    /\ IsPrefix(calls, <<"make_itinerary", "weather_md", "render_pdf">>)
    /\ Strip(city) = <<>> => (calls = <<>> /\ ~download)
    /\ Len(calls) >= 2 => itin_ok
    /\ download => Len(calls) = 3
    /\ (upc = "end" /\ go /\ Strip(city) # <<>>) =>
          IF itin_ok
          THEN Len(calls) = 3 /\ download
          ELSE calls = <<"make_itinerary">> /\ ~download /\ raised = "make_itinerary"

\* a submit with a padded city ran all three calls and offered the document
C6_Witness ==
    /\ upc = "end"
    /\ go
    /\ city # Strip(city)
    /\ calls = <<"make_itinerary", "weather_md", "render_pdf">>
    /\ download

\* C7: a call of render_pdf with the arguments and the clock reading of an
\* earlier call ends with the same pages and draw operations as that call,
\* whatever calls were made between and before them.
C7_Deterministic ==
    (pc = "done" /\ prev.args = args) => prev.canvas = canvas

\* two calls in a row with the same arguments, each over several pages
C7_Witness ==
    /\ pc = "done"
    /\ prev # NoCall
    /\ prev.args = args
    /\ \E i \in BodyOps : canvas[i - 1].op = "showPage"

\* C8: the normalisation removes the longest of "### ", "## ", "# " that
\* starts the line, once, and nothing else.
C8_LongestPrefixOnce ==
    ipc # "norm" => norm = StripLongestOnce(ln)

\* s.replace("### ", "") removes this many characters' worth of markers
RECURSIVE Occurrences(_)
Occurrences(s) ==
    IF Len(s) < 4 THEN 0
    ELSE IF SubSeq(s, 1, 4) = H3 THEN 1 + Occurrences(Drop(s, 4))
    ELSE Occurrences(Tail(s))

\* C9 as stated: the Weather body is the weather text less its leading
\* marker ("### ", "## " or "# ", the longest that matches).
C9_LeadingMarkerOnly ==
    wpc = "done" => wbody = WeatherBodyLeadingOnly(weather_text)

\* C9 as amended: the Weather body is the weather text less every "### " in
\* it: a text without "### " is unchanged (a leading "# " or "## " stays), a
\* text whose only "### " leads loses just that, and four characters go for
\* each "### " met from left to right.
C9_RemovesEveryH3 ==
    wpc = "done" =>
        /\ ~Contains(weather_text, H3) => wbody = weather_text
        /\ (StartsWith(weather_text, H3) /\ ~Contains(Drop(weather_text, 4), H3))
             => wbody = Drop(weather_text, 4)
        /\ Len(wbody) = Len(weather_text) - 4 * Occurrences(weather_text)

\* a "### " that does not lead the text was removed
C9_Witness ==
    /\ wpc = "done"
    /\ weather_text = <<"x">> \o H3 \o <<"x">>
    /\ wbody = <<"x", "x">>

Rank(e) ==
    IF e.what = "doc_title" THEN 0
    ELSE IF e.what = "generated" THEN 1
    ELSE IF e.what = "Interests" THEN 2
    ELSE IF e.what = "Weather" THEN 4
    ELSE IF e.what = "Itinerary" THEN 6
    ELSE 2 * e.blk + 1

\* C10: the draws of a call come in the order document title, timestamp,
\* Interests, Weather, Itinerary, each block's title before its body; a
\* block's title is drawn at the cursor the step before it returned; only
\* Itinerary's lines are in bullet mode; the last page is closed once, after
\* the Itinerary block's last draw, with every title drawn.
C10_FixedOrder ==
    /\ (canvas # <<>> /\ canvas[Len(canvas)].op = "showPage") <=> pc = "done"
    /\ pc = "done" =>
          /\ \A i \in DrawOps :
                IF i = 1 THEN canvas[i].what = "doc_title"
                ELSE LET p  == canvas[PrevDraw(i)]
                         e  == canvas[i]
                         rp == Rank(p)
                         re == Rank(e)
                     IN  /\ rp <= re
                         /\ rp = re => e.what = "body"
                         /\ e.what = "generated" => p.what = "doc_title"
                         /\ e.what = "body" => (rp \in {re - 1, re} /\ (e.bullet <=> re = 7))
                         /\ i \in TitleOps =>
                              /\ rp \in {re - 2, re - 1}
                              /\ e.y = IF p.what = "generated" THEN CursorAfter(p)
                                       ELSE CursorAfter(p) - BlockGap
          /\ \A i \in DOMAIN canvas :
                (canvas[i].op = "showPage" /\ i < Len(canvas)) => canvas[i + 1].what = "body"
          /\ canvas[Len(canvas) - 1].op = "drawString"
          /\ Rank(canvas[Len(canvas) - 1]) \in {6, 7}
          /\ Cardinality(TitleOps) = 3

\* a finished call whose every block has body lines, over several pages
C10_Witness ==
    /\ pc = "done"
    /\ \A b \in 1..3 : \E i \in BodyOps : canvas[i].blk = b
    /\ \E i \in BodyOps : canvas[i - 1].op = "showPage"

=============================================================================
